---------------------------- MODULE Spec2Model ----------------------------
(***************************************************************************)
(* Newsvendor hot-dog simulator: Scenario and its validation (scenario.py),*)
(* the demand and profit model (game.py) and the Monte Carlo driver and    *)
(* grid evaluator (run_sim.py), over the configuration of config.py.       *)
(*                                                                         *)
(* Number representation.  Python floats are modelled in fixed point:      *)
(*   money          integer cents            (6.00 -> 600)                 *)
(*   multipliers    integer thousandths      (1.03 -> 1030)                *)
(*   head counts    integer tenths of a person before rounding             *)
(*   temperature    integer degrees Fahrenheit                             *)
(* An optional argument (Python None) is the empty sequence, a given value *)
(* x is <<x>>.                                                             *)
(***************************************************************************)
EXTENDS Integers, Sequences, FiniteSets, TLC

VARIABLES
    sc,     \* the Scenario object the caller holds
    pc,     \* the caller's position: "build", "idle", "grid", "done"
    edits,  \* number of constructor fields overridden while building sc
    ret,    \* what the last operation returned or raised
    rng,    \* the random.Random instance the sampling functions are handed
    grid,   \* evaluate_grid's frame: Q_values, n, seed, partial result list
    log     \* history: the simulate_many invocations of the current grid
            \* evaluation, or the latest direct one and its like predecessor

vars == <<sc, pc, edits, ret, rng, grid, log>>

(***************************************************************************)
(* config.py                                                               *)
(***************************************************************************)
R_BASE == 300
BASE_FILL_RATE == 860
A_STD_FRAC == 120
MIN_STD == 2000
P_DEFAULT == 600
C_DEFAULT == 150
S_DEFAULT == 25
P_MIN == 1
P_MAX == 5000
C_MIN == 0
C_MAX == 5000
S_MIN == 0
S_MAX == 5000
FIXED_COST_PER_GAME == 0
PROMO_BOOST == 1030
PLAYOFF_BOOST == 1200
TEMP_IDEAL_F == 65
TEMP_PENALTY_PER_10F == 20
RAIN_PENALTY == 900
SNOW_PENALTY == 950
TEAM_WIN_BOOST_AT_1 == 1100
OPPONENT_WIN_BOOST_AT_1 == 1050
CAPACITY_MIN == 25000
CAPACITY_MAX == 100000
CAPACITY_DEFAULT == 60000
TEMP_MIN_F == 0
TEMP_MAX_F == 100
SEASON_GAMES == 20
REPS_MIN == 100
REPS_MAX == 100000
REPS_DEFAULT == 10000
STADIUM_CAPACITY == CAPACITY_DEFAULT

(***************************************************************************)
(* Python values                                                           *)
(***************************************************************************)
None == <<>>
Some(x) == <<x>>

Min2(a, b) == IF a <= b THEN a ELSE b
Max2(a, b) == IF a >= b THEN a ELSE b
Abs(x) == IF x < 0 THEN -x ELSE x

\* round() of a value given in tenths: nearest integer, ties to the even one.
Round10(x10) ==
    LET q == x10 \div 10
        r == x10 % 10
    IN  IF r < 5 THEN q
        ELSE IF r > 5 THEN q + 1
        ELSE IF q % 2 = 0 THEN q ELSE q + 1

(***************************************************************************)
(* scenario.py: the Scenario dataclass                                     *)
(***************************************************************************)
\* Scenario(): every field at its default.
Scenario ==
    [ seed |-> 123,
      replications |-> REPS_DEFAULT,
      stadium_capacity |-> STADIUM_CAPACITY,
      temp_f |-> TEMP_IDEAL_F,
      price |-> P_DEFAULT,
      cost |-> C_DEFAULT,
      salvage |-> S_DEFAULT,
      fixed_cost_per_game |-> FIXED_COST_PER_GAME,
      team_wins |-> 9,
      team_losses |-> 8,
      opp_wins |-> 9,
      opp_losses |-> 8,
      indoor |-> FALSE,
      rain |-> FALSE,
      snow |-> FALSE,
      promo |-> FALSE,
      playoff |-> FALSE ]

\* The check of one team's record inside validate's loop; "ok" when it passes.
RecordError(name, w, l) ==
    IF w < 0 \/ l < 0 THEN name \o " wins/losses must be >= 0"
    ELSE IF w > SEASON_GAMES \/ l > SEASON_GAMES
        THEN name \o " wins/losses must be <= season"
    ELSE IF w + l > SEASON_GAMES THEN name \o " wins+losses cannot exceed season"
    ELSE "ok"

TempOutOfRangeNever(s) == FALSE
\* if not (temp_min <= self.temp_f <= temp_max)
TempOutOfRange(s) == ~(TEMP_MIN_F <= s.temp_f /\ s.temp_f <= TEMP_MAX_F)

SalvageExceedsCostNever(s) == FALSE
\* Prevent "free money from leftovers".
SalvageExceedsCost(s) == s.salvage > s.cost

PriceLeCostStrict(s) == s.price < s.cost
\* The margin check: price equal to cost is rejected too.
PriceLeCost(s) == s.price <= s.cost

IndoorWeatherRainOnly(s) == s.indoor /\ s.rain
\* Indoor overrides weather.
IndoorWeather(s) == s.indoor /\ (s.rain \/ s.snow)

validateRangesLast(s) ==
    IF SalvageExceedsCost(s) THEN "salvage cannot exceed cost"
    ELSE IF PriceLeCost(s) THEN "price should be greater than cost"
    ELSE IF ~(REPS_MIN <= s.replications /\ s.replications <= REPS_MAX)
        THEN "replications must be between min and max"
    ELSE IF ~(CAPACITY_MIN <= s.stadium_capacity /\ s.stadium_capacity <= CAPACITY_MAX)
        THEN "stadium_capacity must be between min and max"
    ELSE IF TempOutOfRange(s)
        THEN "temp_f must be between min and max"
    ELSE IF ~(P_MIN <= s.price /\ s.price <= P_MAX)
        THEN "price must be between min and max"
    ELSE IF ~(C_MIN <= s.cost /\ s.cost <= C_MAX)
        THEN "cost must be between min and max"
    ELSE IF ~(S_MIN <= s.salvage /\ s.salvage <= S_MAX)
        THEN "salvage must be between min and max"
    ELSE IF s.fixed_cost_per_game < 0 THEN "fixed_cost_per_game must be >= 0"
    ELSE IF RecordError("team", s.team_wins, s.team_losses) # "ok"
        THEN RecordError("team", s.team_wins, s.team_losses)
    ELSE IF RecordError("opp", s.opp_wins, s.opp_losses) # "ok"
        THEN RecordError("opp", s.opp_wins, s.opp_losses)
    ELSE IF s.rain /\ s.snow THEN "rain and snow cannot both be True"
    ELSE IF IndoorWeather(s) THEN "Indoor stadium cannot have rain or snow"
    ELSE "ok"

\* Scenario.validate: the message of the ValueError it raises, "ok" when it
\* returns.  Every bound of config.py is present, so the getattr fallbacks
\* (replications <= 0, price <= 0, ...) are never taken.
validate(s) ==
    IF ~(REPS_MIN <= s.replications /\ s.replications <= REPS_MAX)
        THEN "replications must be between min and max"
    ELSE IF ~(CAPACITY_MIN <= s.stadium_capacity /\ s.stadium_capacity <= CAPACITY_MAX)
        THEN "stadium_capacity must be between min and max"
    ELSE IF TempOutOfRange(s)
        THEN "temp_f must be between min and max"
    ELSE IF ~(P_MIN <= s.price /\ s.price <= P_MAX)
        THEN "price must be between min and max"
    ELSE IF ~(C_MIN <= s.cost /\ s.cost <= C_MAX)
        THEN "cost must be between min and max"
    ELSE IF ~(S_MIN <= s.salvage /\ s.salvage <= S_MAX)
        THEN "salvage must be between min and max"
    ELSE IF SalvageExceedsCost(s) THEN "salvage cannot exceed cost"
    ELSE IF PriceLeCost(s) THEN "price should be greater than cost"
    ELSE IF s.fixed_cost_per_game < 0 THEN "fixed_cost_per_game must be >= 0"
    ELSE IF RecordError("team", s.team_wins, s.team_losses) # "ok"
        THEN RecordError("team", s.team_wins, s.team_losses)
    ELSE IF RecordError("opp", s.opp_wins, s.opp_losses) # "ok"
        THEN RecordError("opp", s.opp_wins, s.opp_losses)
    ELSE IF s.rain /\ s.snow THEN "rain and snow cannot both be True"
    ELSE IF IndoorWeather(s) THEN "Indoor stadium cannot have rain or snow"
    ELSE "ok"

team_win_pct_of_wins(s) ==
    IF s.team_wins > 0 THEN (s.team_wins * 1000) \div (s.team_wins + s.team_losses)
    ELSE 500
\* Scenario.team_win_pct / opp_win_pct, in thousandths.
team_win_pct(s) ==
    LET games == s.team_wins + s.team_losses
    IN  IF games > 0 THEN (s.team_wins * 1000) \div games ELSE 500

opp_win_pct(s) ==
    LET games == s.opp_wins + s.opp_losses
    IN  IF games > 0 THEN (s.opp_wins * 1000) \div games ELSE 500

(***************************************************************************)
(* The standard library's random.Random, as far as game.py and run_sim.py  *)
(* use it: a deterministic stream of uniform variates drawn from a finite  *)
(* state, gauss's cache of the second variate of each pair, and            *)
(* lognormvariate's rejection loop.  draws counts the uniforms consumed    *)
(* since the instance was created.                                         *)
(***************************************************************************)
\* random.Random(seed): a new instance, its state a function of seed alone.
Seed(seed) == [s |-> seed % 16, gauss_next |-> None, draws |-> 0]

\* rng.random(): the next uniform variate and the advanced generator.
Random(g) ==
    LET s2 == (5 * g.s + 3) % 16
    IN  [u |-> s2, rng |-> [g EXCEPT !.s = s2, !.draws = g.draws + 1]]

\* Standard normal deviates, in tenths, reached by a pair of uniforms.
GaussZ == <<0, 5, -5, 10, -10, 15, -15, 20, -20, 3, -3, 7, -7, 25, 85, -85>>

\* rng.gauss(mu, sigma), mu and sigma in tenths: every other call takes two
\* uniforms and caches the pair's second deviate; the calls between take none.
Gauss(g, mu10, sigma10) ==
    IF g.gauss_next # None
    THEN [x |-> mu10 + (g.gauss_next[1] * sigma10) \div 10,
          rng |-> [g EXCEPT !.gauss_next = None]]
    ELSE LET r1 == Random(g)
             r2 == Random(r1.rng)
             z == GaussZ[((r1.u + 2 * r2.u) % 16) + 1]
             zn == GaussZ[((2 * r1.u + r2.u) % 16) + 1]
         IN  [x |-> mu10 + (z * sigma10) \div 10,
              rng |-> [r2.rng EXCEPT !.gauss_next = Some(zn)]]

\* rng.normalvariate(mu, sigma), in thousandths: pairs of uniforms are drawn
\* until one is accepted, so the number consumed varies from call to call.
RECURSIVE NormalVariate(_, _, _)
NormalVariate(g, mu, sigma) ==
    LET r1 == Random(g)
        r2 == Random(r1.rng)
        z == ((r1.u + 3 * r2.u) % 5) * 10 - 20
    IN  IF r2.u \in {0, 5, 8}
        THEN NormalVariate(r2.rng, mu, sigma)
        ELSE [x |-> mu + (sigma * z) \div 10, rng |-> r2.rng]

\* math.exp on thousandths, for the small arguments the noise model uses.
Exp1000(x) == 1000 + x + (x * x) \div 2000 + (x * x * x) \div 6000000

\* rng.lognormvariate(mu, sigma) = exp(normalvariate(mu, sigma)).
LogNormVariate(g, mu, sigma) ==
    LET nv == NormalVariate(g, mu, sigma)
    IN  [x |-> Exp1000(nv.x), rng |-> nv.rng]

(***************************************************************************)
(* game.py                                                                 *)
(***************************************************************************)
EPS_SIGMA == 100

_clipNoUpper(x, lo, hi) == Max2(lo, x)
_clip(x, lo, hi) == Max2(lo, Min2(x, hi))

_win_pct_multiplier_unfloored(win_pct, boost_at_1, min_mult) ==
    1000 + ((win_pct - 500) * 2 * (boost_at_1 - 1000)) \div 1000
\* _win_pct_multiplier(win_pct, boost_at_1, min_mult), all in thousandths.
_win_pct_multiplier(win_pct, boost_at_1, min_mult) ==
    LET slope == boost_at_1 - 1000
        m == 1000 + ((win_pct - 500) * 2 * slope) \div 1000
    IN  Max2(min_mult, m)

\* The temperature discomfort factor computed inside attendance_multiplier.
temp_mult(s) ==
    LET dist == Abs(s.temp_f - TEMP_IDEAL_F)
    IN  Max2(700, 1000 - (TEMP_PENALTY_PER_10F * dist) \div 10)

Times(m, f) == (m * f) \div 1000

attendance_multiplier_outdoors(s) ==
    LET m1 == IF s.promo THEN Times(1000, PROMO_BOOST) ELSE 1000
        m2 == IF s.playoff THEN Times(m1, PLAYOFF_BOOST) ELSE m1
        m3 == IF s.rain THEN Times(m2, RAIN_PENALTY) ELSE m2
        m4 == IF s.snow THEN Times(m3, SNOW_PENALTY) ELSE m3
        m5 == Times(m4, temp_mult(s))
        m6 == Times(m5, _win_pct_multiplier(team_win_pct(s), TEAM_WIN_BOOST_AT_1, 800))
    IN  Times(m6, _win_pct_multiplier(opp_win_pct(s), OPPONENT_WIN_BOOST_AT_1, 900))
\* attendance_multiplier(sc), in thousandths.
attendance_multiplier(s) ==
    LET m1 == IF s.promo THEN Times(1000, PROMO_BOOST) ELSE 1000
        m2 == IF s.playoff THEN Times(m1, PLAYOFF_BOOST) ELSE m1
    IN  IF s.indoor THEN m2
        ELSE LET m3 == IF s.rain THEN Times(m2, RAIN_PENALTY) ELSE m2
                 m4 == IF s.snow THEN Times(m3, SNOW_PENALTY) ELSE m3
                 m5 == Times(m4, temp_mult(s))
                 m6 == Times(m5, _win_pct_multiplier(team_win_pct(s),
                                                     TEAM_WIN_BOOST_AT_1, 800))
             IN  Times(m6, _win_pct_multiplier(opp_win_pct(s),
                                               OPPONENT_WIN_BOOST_AT_1, 900))

sample_epsilon(g) ==
    LET sigma == EPS_SIGMA
        mu == 0 - (sigma * sigma) \div 2000
    IN  LogNormVariate(g, mu, sigma)

\* sample_attendance once the normal draw (d) is made:
\* a = _clip(a, 0.0, cap); return int(round(a))
attendance_of(s, d) ==
    [err |-> "ok", rng |-> d.rng, draw |-> d.x,
     a |-> Round10(_clip(d.x, 0, s.stadium_capacity * 10))]

\* sample_attendance after sc.validate() (verr: what it raised): the baseline
\* mean and deviation, the adjusted mean, and the draw, all in tenths.
attendance_after_validate(g, s, verr) ==
    IF verr # "ok" THEN [err |-> verr, rng |-> g]
    ELSE LET mu0 == (s.stadium_capacity * BASE_FILL_RATE) \div 100
             sigma0 == Max2(MIN_STD * 10, (mu0 * A_STD_FRAC) \div 1000)
             mu == (mu0 * attendance_multiplier(s)) \div 1000
         IN  attendance_of(s, Gauss(g, mu, sigma0))

sample_attendance_unchecked(g, s) == attendance_after_validate(g, s, "ok")
\* sample_attendance: err is validate's message ("ok": none was raised); draw is
\* the normal draw before clamping, in tenths; a the attendance returned.
sample_attendance(g, s) == attendance_after_validate(g, s, validate(s))

\* sample_demand once a (ra) and eps (re) are drawn:
\* d = a * R_BASE * eps; d = max(0.0, d); return int(round(d)), a, eps
demand_of(g, ra, re) ==
    LET d == (((ra.a * R_BASE) \div 100) * re.x) \div 1000
    IN  [err |-> "ok", rng |-> re.rng, D |-> Round10(Max2(0, d)),
         a |-> ra.a, eps |-> re.x, taken |-> re.rng.draws - g.draws]

\* sample_demand once a is drawn (ra): eps = sample_epsilon(rng), unless
\* sample_attendance raised.
demand_after_attendance(g, ra) ==
    IF ra.err # "ok" THEN [err |-> ra.err, rng |-> ra.rng]
    ELSE demand_of(g, ra, sample_epsilon(ra.rng))

\* The two draws in the other order: the noise first, the attendance second.
sample_demand_noise_first(g, s) ==
    LET re == sample_epsilon(g)
        ra == sample_attendance(re.rng, s)
    IN  IF ra.err # "ok" THEN [err |-> ra.err, rng |-> ra.rng]
        ELSE demand_of(g, ra, [re EXCEPT !.rng = ra.rng])
\* sample_demand: (D, attendance, eps); taken is the number of uniforms the
\* call consumed.
sample_demand(g, s) == demand_after_attendance(g, sample_attendance(g, s))

soldNoCap(Q, D) == D
\* sold = min(Q, D)
sold(Q, D) == Min2(Q, D)

leftoverAbs(Q, D) == Abs(Q - D)
leftoverUnfloored(Q, D) == Q - D
\* leftover = max(Q - D, 0)
leftover(Q, D) == Max2(Q - D, 0)

NegativeNoCheck(x) == FALSE
\* The precondition tests "Q < 0" and "D < 0".
Negative(x) == x < 0

\* profit_for_game: a GameResult, or the ValueError raised.
profit_for_game(Q, D, attendance, s) ==
    IF Negative(Q) THEN [kind |-> "error", err |-> "Q must be >= 0"]
    ELSE IF Negative(D) THEN [kind |-> "error", err |-> "D must be >= 0"]
    ELSE LET sld == sold(Q, D)
             lft == leftover(Q, D)
             revenue == s.price * sld
             cost == s.cost * Q
             salvage == s.salvage * lft
         IN  [kind |-> "GameResult", err |-> "ok",
              Q |-> Q, D |-> D, sold |-> sld, leftover |-> lft,
              revenue |-> revenue, cost |-> cost, salvage |-> salvage,
              profit |-> revenue - cost + salvage - s.fixed_cost_per_game,
              attendance |-> attendance]

(***************************************************************************)
(* statistics.mean / pstdev, min, max                                      *)
(***************************************************************************)
\* The folds below split their range in halves, so that a hundred trials
\* nest only a few levels deep.
RECURSIVE SumRange(_, _, _)
SumRange(xs, lo, hi) ==
    IF lo > hi THEN 0
    ELSE IF lo = hi THEN xs[lo]
    ELSE LET mid == (lo + hi) \div 2
         IN  SumRange(xs, lo, mid) + SumRange(xs, mid + 1, hi)

SeqSum(xs) == SumRange(xs, 1, Len(xs))

RECURSIVE MinRange(_, _, _)
MinRange(xs, lo, hi) ==
    IF lo = hi THEN xs[lo]
    ELSE LET mid == (lo + hi) \div 2
         IN  Min2(MinRange(xs, lo, mid), MinRange(xs, mid + 1, hi))

SeqFirst(xs) == xs[1]
\* min(xs) of a non-empty list
SeqMin(xs) == MinRange(xs, 1, Len(xs))

RECURSIVE MaxRange(_, _, _)
MaxRange(xs, lo, hi) ==
    IF lo = hi THEN xs[lo]
    ELSE LET mid == (lo + hi) \div 2
         IN  Max2(MaxRange(xs, lo, mid), MaxRange(xs, mid + 1, hi))

\* max(xs) of a non-empty list
SeqMax(xs) == MaxRange(xs, 1, Len(xs))

RECURSIVE Gcd(_, _)
Gcd(a, b) == IF b = 0 THEN a ELSE Gcd(b, a % b)

\* The exact quotient num/den (den > 0), in lowest terms.
Frac(num, den) ==
    LET g == Gcd(Abs(num), den)
    IN  [num |-> num \div g, den |-> den \div g]

\* statistics.mean(xs)
Mean(xs) == Frac(SeqSum(xs), Len(xs))

\* The largest r with r * r <= x, searched between lo and hi.
RECURSIVE ISqrt(_, _, _)
ISqrt(x, lo, hi) ==
    IF lo >= hi THEN lo
    ELSE LET mid == (lo + hi + 1) \div 2
         IN  IF mid * mid <= x THEN ISqrt(x, mid, hi) ELSE ISqrt(x, lo, mid - 1)

\* statistics.pstdev(xs) of amounts in cents, to a resolution of ten dollars:
\* the square root of the mean squared deviation from the mean.
PStdev(xs) ==
    LET m == SeqSum(xs) \div Len(xs)
        sq == [i \in 1..Len(xs) |-> ((xs[i] - m) \div 1000) * ((xs[i] - m) \div 1000)]
    IN  ISqrt(SeqSum(sq) \div Len(xs), 0, 40000) * 1000

(***************************************************************************)
(* run_sim.py                                                              *)
(***************************************************************************)
StartRngShared(seed, prev) == IF prev = None THEN Seed(seed) ELSE prev[1]
\* The run draws from the generator the caller holds instead of its own.
StartRngOfCaller(seed, prev) == rng
\* rng = random.Random(seed): the run's own generator, whatever generator
\* (prev, if any) an earlier run left behind.
StartRng(seed, prev) == Seed(seed)

IsStockoutOrEqual(D, Q) == D >= Q
\* if res.D > Q: stockouts += 1
IsStockout(D, Q) == D > Q

\* dict.update
Update(d, e) == e @@ d

\* The accumulators of simulate_many before its first trial.
Accumulators(g) ==
    [rng |-> g, err |-> "ok", profits |-> <<>>, demands |-> <<>>, solds |-> <<>>,
     leftovers |-> <<>>, attendances |-> <<>>, epsilons |-> <<>>,
     stockouts |-> 0, taken |-> <<>>]

\* The loop body after res = game.profit_for_game(Q, D, a, sc): the appends
\* and the stockout count.
Accumulate(st, Q, sd, res) ==
    IF res.kind = "error" THEN [st EXCEPT !.err = res.err, !.rng = sd.rng]
    ELSE [rng |-> sd.rng, err |-> "ok",
          profits |-> Append(st.profits, res.profit),
          demands |-> Append(st.demands, res.D),
          solds |-> Append(st.solds, res.sold),
          leftovers |-> Append(st.leftovers, res.leftover),
          attendances |-> Append(st.attendances, res.attendance),
          epsilons |-> Append(st.epsilons, sd.eps),
          stockouts |-> st.stockouts + (IF IsStockout(res.D, Q) THEN 1 ELSE 0),
          taken |-> Append(st.taken, sd.taken)]

\* The loop body after D, a, eps = game.sample_demand(rng, sc) (sd).
TrialAfterDemand(st, Q, s, sd) ==
    IF sd.err # "ok" THEN [st EXCEPT !.err = sd.err, !.rng = sd.rng]
    ELSE Accumulate(st, Q, sd, profit_for_game(Q, sd.D, sd.a, s))

\* One pass of simulate_many's loop body.
Trial(st, Q, s) == TrialAfterDemand(st, Q, s, sample_demand(st.rng, s))

\* for _ in range(k): ... , the passes run in order, the first half of them
\* and then the rest; an error ends the loop.
RECURSIVE Trials(_, _, _, _)
Trials(k, st, Q, s) ==
    IF k = 0 \/ st.err # "ok" THEN st
    ELSE IF k = 1 THEN Trial(st, Q, s)
    ELSE Trials(k - k \div 2, Trials(k \div 2, st, Q, s), Q, s)

\* out["traces"] = {"profit": profits, "demand": demands, ...}
Traces(st) ==
    [traces |-> [profit |-> st.profits, demand |-> st.demands,
                 attendance |-> st.attendances, eps |-> st.epsilons]]

WithTracesAlways(out, st, return_traces) == Update(out, Traces(st))
\* if return_traces: out["traces"] = ...
WithTraces(out, st, return_traces) ==
    IF return_traces THEN Update(out, Traces(st)) ELSE out

\* The dictionary simulate_many returns.
Summary(Q, n, seed, st, s, return_traces) ==
    LET out == ("n games" :> n) @@
               [ Q |-> Q,
                 seed |-> seed,
                 avg_profit |-> Mean(st.profits),
                 sd_profit |-> PStdev(st.profits),
                 min_profit |-> SeqMin(st.profits),
                 max_profit |-> SeqMax(st.profits),
                 avg_attendance |-> Mean(st.attendances),
                 avg_demand |-> Mean(st.demands),
                 avg_sold |-> Mean(st.solds),
                 avg_leftover |-> Mean(st.leftovers),
                 stockout_rate |-> Frac(st.stockouts, n) ]
        out2 == Update(out, [price |-> s.price, cost |-> s.cost, salvage |-> s.salvage,
                             fixed_cost_per_game |-> s.fixed_cost_per_game])
    IN  WithTraces(out2, st, return_traces)

\* simulate_many after its loop (st: the final accumulators).
simulate_many_out(Q, s, n, seed, return_traces, g, st) ==
    IF st.err # "ok" THEN [err |-> st.err, rng |-> Some(st.rng), seeded |-> TRUE]
    ELSE [err |-> "ok", rng |-> Some(st.rng), seeded |-> TRUE,
          n |-> n, seed |-> seed, start |-> g, run |-> st,
          out |-> Summary(Q, n, seed, st, s, return_traces)]

\* simulate_many from rng = random.Random(seed) (g) on.
simulate_many_run(Q, s, n, seed, return_traces, g) ==
    simulate_many_out(Q, s, n, seed, return_traces, g,
                      Trials(n, Accumulators(g), Q, s))

EffectiveNOrDefault(n, s) ==
    IF n = None \/ n[1] = 0 THEN s.replications ELSE n[1]
\* n = sc.replications if n is None else n
EffectiveN(n, s) == IF n = None THEN s.replications ELSE n[1]

EffectiveSeedOrDefault(seed, s) ==
    IF seed = None \/ seed[1] = 0 THEN s.seed ELSE seed[1]
\* seed = sc.seed if seed is None else seed
EffectiveSeed(seed, s) == IF seed = None THEN s.seed ELSE seed[1]

\* simulate_many after sc.validate() (verr: what it raised).
simulate_many_checked(Q, s, n, seed, return_traces, prev, verr) ==
    IF verr # "ok" THEN [err |-> verr, rng |-> None, seeded |-> FALSE]
    ELSE LET n_eff == EffectiveN(n, s)
             seed_eff == EffectiveSeed(seed, s)
         IN  IF n_eff <= 0
             THEN [err |-> "n/replications must be > 0", rng |-> None, seeded |-> FALSE]
             ELSE IF Q < 0
             THEN [err |-> "Q must be >= 0", rng |-> None, seeded |-> FALSE]
             ELSE simulate_many_run(Q, s, n_eff, seed_eff, return_traces,
                                    StartRng(seed_eff, prev))

\* simulate_many(Q, sc, n, seed, return_traces).  err is the message of the
\* error raised ("ok": it returned out).  rng is the generator the call
\* created, as it leaves it (None: it created none), seeded whether it created
\* one, start that generator as created, and run the final accumulators.
simulate_many(Q, s, n, seed, return_traces, prev) ==
    simulate_many_checked(Q, s, n, seed, return_traces, prev, validate(s))

GridSeedPerElement(seed, k) ==
    IF seed = None THEN Some(k) ELSE Some(seed[1] + k)
\* seed=seed: the comprehension passes its own seed argument on for the k-th
\* element as for every other.
GridSeed(seed, k) == seed

GridPrepend(acc, summary) == <<summary>> \o acc
\* The list comprehension of evaluate_grid collects the summaries in the
\* order of Q_values.
GridAppend(acc, summary) == Append(acc, summary)

(***************************************************************************)
(* The caller builds a Scenario and validates it                           *)
(***************************************************************************)
MaxEdits == 3
MaxValidations == 3

NoReturn == [kind |-> "none"]
NoGrid == [Qs |-> <<>>, n |-> None, seed |-> None, acc |-> <<>>]

\* The values a caller passes for a constructor field: the bounds of its range,
\* their neighbours outside it, and values that meet another field's default.
FieldVals ==
    [ replications |-> {REPS_MIN - 1, REPS_MIN, REPS_MAX, REPS_MAX + 1},
      stadium_capacity |-> {CAPACITY_MIN - 1, CAPACITY_MIN, CAPACITY_MAX + 1},
      temp_f |-> {TEMP_MIN_F - 1, TEMP_MIN_F, TEMP_MAX_F, TEMP_MAX_F + 1},
      price |-> {P_MIN - 1, P_MIN, C_DEFAULT, P_MAX, P_MAX + 1},
      cost |-> {C_MIN - 1, C_MIN, P_DEFAULT, C_MAX, C_MAX + 1},
      salvage |-> {S_MIN - 1, S_MIN, C_DEFAULT, 200, S_MAX + 1},
      fixed_cost_per_game |-> {-1, 100},
      team_wins |-> {-1, 0, 12, 13, SEASON_GAMES + 1},
      team_losses |-> {-1, 0, 11, SEASON_GAMES, SEASON_GAMES + 1},
      opp_wins |-> {-1, 0, 13, SEASON_GAMES + 1},
      opp_losses |-> {-1, 0, SEASON_GAMES + 1},
      indoor |-> {TRUE},
      rain |-> {TRUE},
      snow |-> {TRUE},
      promo |-> {TRUE},
      playoff |-> {TRUE} ]

InitBuild ==
    /\ sc = Scenario
    /\ pc = "build"
    /\ edits = 0
    /\ ret = NoReturn
    /\ rng = Seed(0)
    /\ grid = NoGrid
    /\ log = <<>>

\* Scenario(..., f=v, ...): the caller overrides one more field's default.
SetField ==
    /\ pc = "build"
    /\ edits < MaxEdits
    /\ \E f \in DOMAIN FieldVals : \E v \in FieldVals[f] :
          sc' = [sc EXCEPT ![f] = v]
    /\ edits' = edits + 1
    /\ ret' = NoReturn
    /\ UNCHANGED <<pc, rng, grid, log>>

\* The value sc.validate() evaluates to when it raises nothing: the method has
\* no return statement.
validate_returns_self(s) == Some(s)
validate_value(s) == None

\* sc.validate(): err is the message raised ("ok": none), val the value
\* returned, calls the number of consecutive calls made on the object so far.
\* The method assigns nothing, and the dataclass is frozen.
Validate ==
    /\ pc = "build"
    /\ ret.kind = "validate" => ret.calls < MaxValidations
    /\ ret' = [kind |-> "validate", err |-> validate(sc),
               val |-> validate_value(sc),
               calls |-> IF ret.kind = "validate" THEN ret.calls + 1 ELSE 1]
    /\ UNCHANGED <<sc, pc, edits, rng, grid, log>>

NextBuild == SetField \/ Validate

SpecValidate == InitBuild /\ [][NextBuild]_vars

(***************************************************************************)
(* Claims about validation                                                 *)
(***************************************************************************)
InRange(x, lo, hi) == lo <= x /\ x <= hi

Inv1Ranges(s) ==
    /\ InRange(s.replications, REPS_MIN, REPS_MAX)
    /\ InRange(s.stadium_capacity, CAPACITY_MIN, CAPACITY_MAX)
    /\ InRange(s.temp_f, TEMP_MIN_F, TEMP_MAX_F)
    /\ InRange(s.price, P_MIN, P_MAX)
    /\ InRange(s.cost, C_MIN, C_MAX)
    /\ InRange(s.salvage, S_MIN, S_MAX)
Inv2Salvage(s) == s.salvage <= s.cost
Inv3Margin(s) == s.price > s.cost
Inv4Fixed(s) == s.fixed_cost_per_game >= 0
Inv5Records(s) ==
    /\ s.team_wins >= 0 /\ s.team_losses >= 0
    /\ s.team_wins + s.team_losses <= SEASON_GAMES
    /\ s.opp_wins >= 0 /\ s.opp_losses >= 0
    /\ s.opp_wins + s.opp_losses <= SEASON_GAMES
Inv6Weather(s) == ~(s.rain /\ s.snow) /\ ~(s.indoor /\ (s.rain \/ s.snow))

\* The number of the first invariant s violates, 0 when it violates none.
FirstViolated(s) ==
    IF ~Inv1Ranges(s) THEN 1
    ELSE IF ~Inv2Salvage(s) THEN 2
    ELSE IF ~Inv3Margin(s) THEN 3
    ELSE IF ~Inv4Fixed(s) THEN 4
    ELSE IF ~Inv5Records(s) THEN 5
    ELSE IF ~Inv6Weather(s) THEN 6
    ELSE 0

\* The invariant an error message of validate is about.
ErrGroup(msg) ==
    IF msg = "ok" THEN 0
    ELSE IF msg \in {"replications must be between min and max",
                     "stadium_capacity must be between min and max",
                     "temp_f must be between min and max",
                     "price must be between min and max",
                     "cost must be between min and max",
                     "salvage must be between min and max"} THEN 1
    ELSE IF msg = "salvage cannot exceed cost" THEN 2
    ELSE IF msg = "price should be greater than cost" THEN 3
    ELSE IF msg = "fixed_cost_per_game must be >= 0" THEN 4
    ELSE IF msg \in {"rain and snow cannot both be True",
                     "Indoor stadium cannot have rain or snow"} THEN 6
    ELSE 5

NumViolated(s) ==
    Cardinality({k \in 1..6 :
        \/ k = 1 /\ ~Inv1Ranges(s)
        \/ k = 2 /\ ~Inv2Salvage(s)
        \/ k = 3 /\ ~Inv3Margin(s)
        \/ k = 4 /\ ~Inv4Fixed(s)
        \/ k = 5 /\ ~Inv5Records(s)
        \/ k = 6 /\ ~Inv6Weather(s)})

\* C6: validate() returns without error exactly when the six invariants hold:
\* the six ranged fields inside their bounds, salvage <= cost, price > cost,
\* fixed cost >= 0, both records non-negative and within the season, and the
\* weather flags compatible.
C6_ValidationExact ==
    ret.kind = "validate" =>
        ((ret.err = "ok") <=>
            (/\ Inv1Ranges(sc) /\ Inv2Salvage(sc) /\ Inv3Margin(sc)
             /\ Inv4Fixed(sc) /\ Inv5Records(sc) /\ Inv6Weather(sc)))

\* A Scenario whose price equals its cost, everything else valid, was rejected.
C6_Witness ==
    /\ ret.kind = "validate"
    /\ sc.price = sc.cost
    /\ Inv1Ranges(sc) /\ Inv2Salvage(sc) /\ Inv4Fixed(sc)
    /\ Inv5Records(sc) /\ Inv6Weather(sc)
    /\ ret.err # "ok"

\* C7: when several invariants are violated, the error validate() raises is
\* the one of the first violated invariant in the order ranges, salvage <=
\* cost, price > cost, fixed cost, records, weather.
C7_FirstViolatedReported ==
    ret.kind = "validate" => ErrGroup(ret.err) = FirstViolated(sc)

\* A Scenario violating three invariants at once, among them a range, was
\* validated, and the range error was the one raised.
C7_Witness ==
    /\ ret.kind = "validate"
    /\ NumViolated(sc) >= 3
    /\ ~Inv1Ranges(sc) /\ ~Inv2Salvage(sc)
    /\ ErrGroup(ret.err) = 1

\* C8: validate() fails for every Scenario with salvage > cost, with rain and
\* snow both set, or with indoor set together with rain or snow, whatever its
\* other fields.
C8_RejectsCrossField ==
    (/\ ret.kind = "validate"
     /\ \/ sc.salvage > sc.cost
        \/ sc.rain /\ sc.snow
        \/ sc.indoor /\ (sc.rain \/ sc.snow))
    => ret.err # "ok"

\* salvage 2.00 against cost 1.50 was rejected, and so was an indoor game
\* with snow whose other fields are valid.
C8_Witness ==
    /\ ret.kind = "validate"
    /\ ret.err # "ok"
    /\ \/ sc.salvage = 200 /\ sc.cost = 150
       \/ sc.indoor /\ sc.snow /\ ~sc.rain /\ FirstViolated(sc) = 6

MaxDraws == 6

\* Scenarios the functions of game.py are applied to: the default; a playoff
\* promotion (mean attendance above capacity); a cold, wet game of a losing
\* team in the smallest stadium; other economics; an indoor arena; and one
\* that does not pass validation.
GameScenarios ==
    { Scenario,
      [Scenario EXCEPT !.promo = TRUE, !.playoff = TRUE],
      [Scenario EXCEPT !.stadium_capacity = CAPACITY_MIN, !.temp_f = TEMP_MIN_F,
                       !.rain = TRUE, !.team_wins = 0, !.team_losses = SEASON_GAMES,
                       !.opp_wins = 0, !.opp_losses = 0],
      [Scenario EXCEPT !.price = 1000, !.cost = 600, !.salvage = 600,
                       !.fixed_cost_per_game = 100],
      [Scenario EXCEPT !.indoor = TRUE, !.stadium_capacity = CAPACITY_MAX,
                       !.temp_f = TEMP_MAX_F],
      [Scenario EXCEPT !.rain = TRUE, !.snow = TRUE] }

\* Order quantities and demands handed to profit_for_game.
QuantityVals == {-1, 0, 1, 2, 3, 10000, 12000, 15000, 20000}

InitGame ==
    /\ sc \in GameScenarios
    /\ pc = "idle"
    /\ edits = 0
    /\ ret = NoReturn
    /\ \E seed \in 0..15 : rng = Seed(seed)
    /\ grid = NoGrid
    /\ log = <<>>

\* game.profit_for_game(Q, D, attendance, sc)
ProfitForGame ==
    /\ pc = "idle"
    /\ \E Q \in QuantityVals, D \in QuantityVals, a \in {0, 50000} :
          ret' = [kind |-> "profit", Q |-> Q, D |-> D, attendance |-> a,
                  res |-> profit_for_game(Q, D, a, sc)]
    /\ UNCHANGED <<sc, pc, edits, rng, grid, log>>

\* game.sample_attendance(rng, sc)
SampleAttendance ==
    /\ pc = "idle"
    /\ rng.draws < MaxDraws
    /\ LET r == sample_attendance(rng, sc)
       IN  /\ ret' = [kind |-> "attendance", res |-> r, before |-> rng]
           /\ rng' = r.rng
    /\ UNCHANGED <<sc, pc, edits, grid, log>>

\* game.sample_demand(rng, sc)
SampleDemand ==
    /\ pc = "idle"
    /\ rng.draws < MaxDraws
    /\ LET r == sample_demand(rng, sc)
       IN  /\ ret' = [kind |-> "demand", res |-> r, before |-> rng]
           /\ rng' = r.rng
    /\ UNCHANGED <<sc, pc, edits, grid, log>>

NextGame == SampleAttendance \/ SampleDemand

SpecGame == InitGame /\ [][NextGame]_vars

InitProfit ==
    /\ sc \in GameScenarios
    /\ pc = "idle"
    /\ edits = 0
    /\ ret = NoReturn
    /\ rng = Seed(0)
    /\ grid = NoGrid
    /\ log = <<>>

NextProfit == ProfitForGame

SpecProfit == InitProfit /\ [][NextProfit]_vars

(***************************************************************************)
(* Claims about the demand and profit model                                *)
(***************************************************************************)
\* C4: for Q >= 0 and D >= 0 profit_for_game returns sold = min(Q, D),
\* leftover = max(Q - D, 0), revenue = price * sold, cost = unit cost * Q,
\* salvage = unit salvage * leftover, profit = revenue - cost + salvage - fixed
\* cost, and echoes Q, D and attendance; with the default economics
\* Q = 20000, D = 15000 gives profit 61250 and Q = 10000, D = 12000 gives
\* sold 10000, leftover 0, profit 45000.
C4_ProfitFormula ==
    (ret.kind = "profit" /\ ret.Q >= 0 /\ ret.D >= 0) =>
        LET r == ret.res
            over == ret.Q > ret.D
        IN  /\ r.kind = "GameResult"
            /\ r.Q = ret.Q /\ r.D = ret.D /\ r.attendance = ret.attendance
            /\ r.sold = (IF over THEN ret.D ELSE ret.Q)
            /\ r.leftover = (IF over THEN ret.Q - ret.D ELSE 0)
            /\ r.revenue = sc.price * r.sold
            /\ r.cost = sc.cost * ret.Q
            /\ r.salvage = sc.salvage * r.leftover
            /\ r.profit = r.revenue - r.cost + r.salvage - sc.fixed_cost_per_game
            /\ (/\ ret.Q = 20000 /\ ret.D = 15000 /\ sc.price = 600
                /\ sc.cost = 150 /\ sc.salvage = 25 /\ sc.fixed_cost_per_game = 0)
               => (/\ r.sold = 15000 /\ r.leftover = 5000 /\ r.revenue = 9000000
                   /\ r.cost = 3000000 /\ r.salvage = 125000 /\ r.profit = 6125000)
            /\ (/\ ret.Q = 10000 /\ ret.D = 12000 /\ sc.price = 600
                /\ sc.cost = 150 /\ sc.salvage = 25 /\ sc.fixed_cost_per_game = 0)
               => (/\ r.sold = 10000 /\ r.leftover = 0 /\ r.revenue = 6000000
                   /\ r.cost = 1500000 /\ r.salvage = 0 /\ r.profit = 4500000)

\* The first literal example was computed: Q = 20000 against D = 15000 under
\* the default economics.
C4_Witness ==
    /\ ret.kind = "profit" /\ ret.Q = 20000 /\ ret.D = 15000
    /\ sc.price = 600 /\ sc.cost = 150 /\ sc.salvage = 25
    /\ sc.fixed_cost_per_game = 0
    /\ ret.res.kind = "GameResult" /\ ret.res.profit = 6125000

\* C9: for a validated Scenario sample_attendance returns an attendance a with
\* 0 <= a <= stadium_capacity; a normal draw at or above capacity gives
\* exactly stadium_capacity and a draw at or below 0 gives exactly 0.
C9_AttendanceBounds ==
    (ret.kind = "attendance" /\ validate(sc) = "ok") =>
        LET r == ret.res
        IN  /\ r.err = "ok"
            /\ 0 <= r.a /\ r.a <= sc.stadium_capacity
            /\ (r.draw >= sc.stadium_capacity * 10 => r.a = sc.stadium_capacity)
            /\ (r.draw <= 0 => r.a = 0)

\* A sellout: the draw was strictly above capacity and capacity was returned.
C9_Witness ==
    /\ ret.kind = "attendance" /\ validate(sc) = "ok"
    /\ ret.res.draw > sc.stadium_capacity * 10
    /\ ret.res.a = sc.stadium_capacity

\* C10: profit_for_game raises, and returns no GameResult, whenever Q < 0 or
\* D < 0; for Q >= 0 and D >= 0 it never raises.
C10_ProfitPreconditions ==
    ret.kind = "profit" =>
        /\ (ret.Q < 0 \/ ret.D < 0) => ret.res.kind = "error"
        /\ (ret.Q >= 0 /\ ret.D >= 0) => ret.res.kind = "GameResult"

\* A negative demand with a valid order quantity was refused.
C10_Witness ==
    /\ ret.kind = "profit" /\ ret.Q >= 0 /\ ret.D < 0
    /\ ret.res.kind = "error"

(***************************************************************************)
(* The caller runs the Monte Carlo driver and the grid evaluator           *)
(***************************************************************************)
MaxN == 2
MaxGrid == 3

\* Scenarios handed to the driver: the smallest valid replication count, and
\* one that does not pass validation.
DriverScenarios ==
    { [Scenario EXCEPT !.replications = REPS_MIN],
      [Scenario EXCEPT !.replications = REPS_MIN, !.salvage = 200] }

\* Order quantities: an invalid one, none at all, the demand the default
\* Scenario realizes in the first trial of seed 123, and one between that and
\* the second trial's.
QVals == {-1, 0, 13648, 14000}

NVals == {None} \cup {Some(k) : k \in 0..MaxN}
SeedVals == {None, Some(0)}

\* Sequences over S of length at most k.
SeqsUpTo(S, k) == UNION {[1..m -> S] : m \in 0..k}

Init ==
    /\ sc \in DriverScenarios
    /\ pc = "idle"
    /\ edits = 0
    /\ ret = NoReturn
    /\ rng = Seed(0)
    /\ grid = NoGrid
    /\ log = <<>>

\* What the history keeps of one simulate_many invocation: its arguments and
\* everything simulate_many produced.
LogEntry(Q, n, seed, return_traces, r) ==
    [Q |-> Q, n_arg |-> n, seed_arg |-> seed, traces |-> return_traces, r |-> r]

\* The generator the latest invocation of the history left behind, if any.
LeftBy(h) == IF h = <<>> THEN None ELSE h[Len(h)].r.rng

\* The latest invocation of the history, as a history, if it was made with
\* these arguments; otherwise nothing.
SameCall(h, Q, n, seed, return_traces) ==
    IF /\ h # <<>>
       /\ h[Len(h)].Q = Q
       /\ h[Len(h)].n_arg = n
       /\ h[Len(h)].seed_arg = seed
       /\ h[Len(h)].traces = return_traces
    THEN <<h[Len(h)]>>
    ELSE <<>>

\* What a direct call hands back to the caller (r: what simulate_many did).
\* The history keeps this invocation, and the one before it when that one had
\* the same arguments.
SimulateReturns(Q, n, seed, tr, r) ==
    /\ ret' = IF r.err = "ok"
              THEN [kind |-> "summary", val |-> r.out]
              ELSE [kind |-> "error", err |-> r.err]
    /\ log' = Append(SameCall(log, Q, n, seed, tr), LogEntry(Q, n, seed, tr, r))

\* summary = simulate_many(Q, sc, n, seed, return_traces), called directly
\* with arguments from the given sets.
CallSimulateOn(Qs, Ns, Seeds) ==
    /\ pc = "idle"
    /\ \E Q \in Qs, n \in Ns, seed \in Seeds, tr \in BOOLEAN :
          SimulateReturns(Q, n, seed, tr,
                          simulate_many(Q, sc, n, seed, tr, LeftBy(log)))
    /\ UNCHANGED <<sc, pc, edits, rng, grid>>

CallSimulate == CallSimulateOn(QVals, NVals, SeedVals)

\* evaluate_grid(Q_values, sc, n, seed) is entered.  The history starts afresh
\* and collects the invocations this evaluation makes.
CallGridOn(Q_values, Ns, Seeds) ==
    /\ pc = "idle"
    /\ \E Qs \in SeqsUpTo(Q_values, MaxGrid), n \in Ns, seed \in Seeds :
          grid' = [Qs |-> Qs, n |-> n, seed |-> seed, acc |-> <<>>]
    /\ pc' = "grid"
    /\ ret' = NoReturn
    /\ log' = <<>>
    /\ UNCHANGED <<sc, edits, rng>>

CallGrid == CallGridOn(QVals, NVals, SeedVals)

GridReturnsPartial(acc, err, Qs) == [kind |-> "list", val |-> acc, Qs |-> Qs]
\* The exception of one element's simulate_many leaves the comprehension and
\* evaluate_grid: the caller gets the error and nothing of the list (acc).
GridRaises(acc, err, Qs) == [kind |-> "error", err |-> err, Qs |-> Qs]

\* What the comprehension does with one element's simulate_many (r): the
\* summary joins the list; an error leaves evaluate_grid at once and the list
\* built so far is lost.
GridCollects(Q, r) ==
    /\ log' = Append(log, LogEntry(Q, grid.n, grid.seed, FALSE, r))
    /\ IF r.err = "ok"
       THEN /\ grid' = [grid EXCEPT !.acc = GridAppend(grid.acc, r.out)]
            /\ UNCHANGED <<pc, ret>>
       ELSE /\ ret' = GridRaises(grid.acc, r.err, grid.Qs)
            /\ pc' = "idle"
            /\ grid' = NoGrid

\* The comprehension's next element: simulate_many(Q=Q, sc=sc, n=n, seed=seed).
GridStep ==
    /\ pc = "grid"
    /\ Len(grid.acc) < Len(grid.Qs)
    /\ GridCollects(grid.Qs[Len(grid.acc) + 1],
                    simulate_many(grid.Qs[Len(grid.acc) + 1], sc, grid.n,
                                  GridSeed(grid.seed, Len(grid.acc) + 1),
                                  FALSE, LeftBy(log)))
    /\ UNCHANGED <<sc, edits, rng>>

\* The comprehension is exhausted: evaluate_grid returns the list.
GridReturn ==
    /\ pc = "grid"
    /\ Len(grid.acc) = Len(grid.Qs)
    /\ ret' = [kind |-> "list", val |-> grid.acc, Qs |-> grid.Qs]
    /\ pc' = "idle"
    /\ grid' = NoGrid
    /\ UNCHANGED <<sc, edits, rng, log>>

\* a < b for two exact quotients, compared over their common denominator.
FracLess(a, b) ==
    LET L == (a.den * b.den) \div Gcd(a.den, b.den)
    IN  a.num * (L \div a.den) < b.num * (L \div b.den)

BetterOrEqual(r, best) == ~FracLess(r["avg_profit"], best["avg_profit"])
\* max() replaces the element it holds only by one whose key is strictly
\* greater.
Better(r, best) == FracLess(best["avg_profit"], r["avg_profit"])

\* max(results, key=lambda r: r["avg_profit"]) from the k-th element on, i
\* being the index of the element held so far.
RECURSIVE MaxFrom(_, _, _)
MaxFrom(results, k, i) ==
    IF k > Len(results) THEN i
    ELSE MaxFrom(results, k + 1, IF Better(results[k], results[i]) THEN k ELSE i)

\* best = max(results, key=lambda r: r["avg_profit"]): the element chosen and
\* its position in results, or the ValueError max raises on an empty list.
BestOf(results) ==
    IF results = <<>>
    THEN [kind |-> "best", err |-> "max() arg is an empty sequence",
          results |-> results]
    ELSE [kind |-> "best", err |-> "ok", results |-> results,
          index |-> MaxFrom(results, 2, 1),
          val |-> results[MaxFrom(results, 2, 1)]]

\* The caller of evaluate_grid picks the best summary of the list it got.
PickBest ==
    /\ pc = "idle"
    /\ ret.kind = "list"
    /\ ret' = BestOf(ret.val)
    /\ UNCHANGED <<sc, pc, edits, rng, grid, log>>

\* The economics profit_for_game and the driver are compared under: the
\* defaults, salvage equal to cost with a fixed cost, and salvage above cost.
OptimumScenarios ==
    { [Scenario EXCEPT !.replications = REPS_MIN],
      [Scenario EXCEPT !.replications = REPS_MIN, !.salvage = C_DEFAULT,
                       !.fixed_cost_per_game = 100],
      [Scenario EXCEPT !.replications = REPS_MIN, !.salvage = 200] }

\* The first trial's demand under seed 123, and more than any trial's.
OptimumQVals == {13648, 20000}
OptimumNVals == {Some(k) : k \in 1..MaxN}

InitOptimum ==
    /\ sc \in OptimumScenarios
    /\ pc = "idle"
    /\ edits = 0
    /\ ret = NoReturn
    /\ rng = Seed(0)
    /\ grid = NoGrid
    /\ log = <<>>

CallSimulateOptimum == CallSimulateOn(OptimumQVals, OptimumNVals, {None})

NextOptimum == ProfitForGame \/ CallSimulateOptimum

SpecOptimum == InitOptimum /\ [][NextOptimum]_vars

\* simulate_many shares nothing between its invocations and evaluate_grid
\* nothing but its arguments, so direct calls and grid evaluations are
\* explored apart.
NextSimulate == CallSimulate

SpecSimulate == Init /\ [][NextSimulate]_vars

NextGrid == CallGrid \/ GridStep \/ GridReturn \/ PickBest

SpecGrid == Init /\ [][NextGrid]_vars

(***************************************************************************)
(* The derived quantities of a Scenario                                    *)
(***************************************************************************)
\* Records (wins, losses): the default, no game played, a lost and a won
\* season, and one that validation refuses.
TeamRecords == {<<9, 8>>, <<0, 0>>, <<0, SEASON_GAMES>>, <<SEASON_GAMES, 0>>, <<-1, 3>>}
OppRecords == {<<9, 8>>, <<0, 0>>, <<0, SEASON_GAMES>>, <<SEASON_GAMES, 0>>}

\* Temperatures: the ideal, a departure within the reach of the penalty, the
\* two ends of the range, and one that validation refuses.
TempVals == {TEMP_IDEAL_F, 40, TEMP_MIN_F, TEMP_MAX_F, 250}

\* Every combination of the five flags with these temperatures and records.
MultiplierScenarios ==
    { [Scenario EXCEPT !.promo = f[1], !.playoff = f[2], !.indoor = f[3],
                       !.rain = f[4], !.snow = f[5], !.temp_f = t,
                       !.team_wins = tr[1], !.team_losses = tr[2],
                       !.opp_wins = r[1], !.opp_losses = r[2]] :
        f \in [1..5 -> BOOLEAN], t \in TempVals, tr \in TeamRecords, r \in OppRecords }

InitDerived ==
    /\ sc \in MultiplierScenarios
    /\ pc = "idle"
    /\ edits = 0
    /\ ret = NoReturn
    /\ rng = Seed(0)
    /\ grid = NoGrid
    /\ log = <<>>

\* game.attendance_multiplier(sc)
AttendanceMultiplier ==
    /\ pc = "idle"
    /\ ret' = [kind |-> "attendance_multiplier", val |-> attendance_multiplier(sc)]
    /\ UNCHANGED <<sc, pc, edits, rng, grid, log>>

\* sc.team_win_pct
TeamWinPct ==
    /\ pc = "idle"
    /\ ret' = [kind |-> "team_win_pct", val |-> team_win_pct(sc)]
    /\ UNCHANGED <<sc, pc, edits, rng, grid, log>>

\* sc.opp_win_pct
OppWinPct ==
    /\ pc = "idle"
    /\ ret' = [kind |-> "opp_win_pct", val |-> opp_win_pct(sc)]
    /\ UNCHANGED <<sc, pc, edits, rng, grid, log>>

NextDerived == AttendanceMultiplier \/ TeamWinPct \/ OppWinPct

SpecDerived == InitDerived /\ [][NextDerived]_vars

\* Arguments of _win_pct_multiplier, in thousandths: win percentages over
\* [0, 1]; boosts below, at and above 1; floors below, at and above 1.
WinPctVals == {0, 250, 500, 529, 750, 1000}
BoostVals == {900, 1000, TEAM_WIN_BOOST_AT_1, OPPONENT_WIN_BOOST_AT_1, 1500}
MinMultVals == {0, 800, 900, 1000, 1200}

\* game._win_pct_multiplier(win_pct, boost_at_1, min_mult)
WinPctMultiplier ==
    /\ pc = "idle"
    /\ \E w \in WinPctVals, b \in BoostVals, m \in MinMultVals :
          ret' = [kind |-> "win_pct_multiplier", win_pct |-> w, boost_at_1 |-> b,
                  min_mult |-> m, val |-> _win_pct_multiplier(w, b, m)]
    /\ UNCHANGED <<sc, pc, edits, rng, grid, log>>

NextWinPct == WinPctMultiplier

SpecWinPct == InitProfit /\ [][NextWinPct]_vars

(***************************************************************************)
(* Every consumer of a Scenario side by side                               *)
(***************************************************************************)
\* Arguments of the driver when it runs next to the sampling functions: a
\* refused and an accepted quantity, and trial counts given explicitly.
ConsumerQVals == {-1, 0, 14000}
ConsumerNVals == {Some(k) : k \in 0..MaxN}

\* What simulate_one_game returns (or raises), with the generator it created
\* and that generator as the call left it.
one_game_of(Q, s, g, sd) ==
    [kind |-> "game", Q |-> Q, created |-> g, left |-> sd.rng, err |-> sd.err,
     res |-> IF sd.err # "ok" THEN [kind |-> "error", err |-> sd.err]
             ELSE profit_for_game(Q, sd.D, sd.a, s)]

\* simulate_one_game(Q, sc, seed): rng = random.Random(sc.seed if seed is None
\* else seed); D, a, _ = sample_demand(rng, sc); profit_for_game(Q, D, a, sc)
simulate_one_game(Q, s, seed) ==
    one_game_of(Q, s, Seed(IF seed = None THEN s.seed ELSE seed[1]),
                sample_demand(Seed(IF seed = None THEN s.seed ELSE seed[1]), s))

\* game.simulate_one_game(Q, sc, seed)
SimulateOneGame ==
    /\ pc = "idle"
    /\ \E Q \in ConsumerQVals, seed \in SeedVals :
          ret' = simulate_one_game(Q, sc, seed)
    /\ UNCHANGED <<sc, pc, edits, rng, grid, log>>

CallSimulateExplicit == CallSimulateOn(ConsumerQVals, ConsumerNVals, SeedVals)

CallGridExplicit == CallGridOn(ConsumerQVals, ConsumerNVals, SeedVals)

NextConsumers ==
    \/ SampleAttendance
    \/ SampleDemand
    \/ SimulateOneGame
    \/ CallSimulateExplicit
    \/ CallGridExplicit
    \/ GridStep
    \/ GridReturn

SpecConsumers == Init /\ [][NextConsumers]_vars

(***************************************************************************)
(* Claims about simulate_many and evaluate_grid                            *)
(***************************************************************************)
\* The invocations of the history that returned a summary.
Returned(h) == {i \in DOMAIN h : h[i].r.err = "ok"}

\* C1: two invocations of simulate_many on the same Scenario with the same Q,
\* the same number of trials, the same seed and the same return_traces return
\* the same dictionary: every aggregate and, when traces are requested, the
\* same per-trial profit, demand, attendance and eps lists.
C1_Determinism ==
    \A i \in Returned(log), j \in Returned(log) :
        ( /\ log[i].Q = log[j].Q
          /\ log[i].r.n = log[j].r.n
          /\ log[i].r.seed = log[j].r.seed
          /\ log[i].traces = log[j].traces )
        => /\ log[i].r.out = log[j].r.out
           /\ log[i].traces => log[i].r.out["traces"] = log[j].r.out["traces"]

\* simulate_many returned twice for the same arguments, traces requested, after
\* more than one trial each.
C1_Witness ==
    /\ Len(log) = 2
    /\ Returned(log) = {1, 2}
    /\ log[1].Q = log[2].Q
    /\ log[1].n_arg = log[2].n_arg
    /\ log[1].seed_arg = log[2].seed_arg
    /\ log[1].traces /\ log[2].traces
    /\ log[1].r.n >= 2
    /\ Len(log[2].r.out["traces"].demand) = log[1].r.n

\* C5: the stockout_rate of a summary is the number of trials whose demand was
\* strictly greater than Q, divided by the number of trials run.
C5_StockoutRate ==
    \A i \in Returned(log) :
        LET e == log[i]
        IN  /\ Len(e.r.run.demands) = e.r.n
            /\ e.r.out["stockout_rate"] =
                  Frac(Cardinality({k \in 1..e.r.n : e.r.run.demands[k] > e.Q}), e.r.n)

\* A summary over trials of which one met its demand exactly and another ran
\* out of stock.
C5_Witness ==
    \E i \in Returned(log) :
        /\ \E k \in 1..log[i].r.n : log[i].r.run.demands[k] = log[i].Q
        /\ \E k \in 1..log[i].r.n : log[i].r.run.demands[k] > log[i].Q
        /\ log[i].r.out["stockout_rate"] = [num |-> 1, den |-> 2]

\* C2: within one grid evaluation every Q runs on a generator freshly seeded
\* with the same seed, and sees the same attendance, eps and demand in every
\* trial, each trial consuming the same amount of the random stream.
C2_CommonRandomNumbers ==
    \A i \in Returned(log), j \in Returned(log) :
        /\ log[i].r.seed = log[j].r.seed
        /\ log[i].r.n = log[j].r.n
        /\ log[i].r.start = Seed(log[i].r.seed)
        /\ log[i].r.run.attendances = log[j].r.run.attendances
        /\ log[i].r.run.epsilons = log[j].r.run.epsilons
        /\ log[i].r.run.demands = log[j].r.run.demands
        /\ log[i].r.run.taken = log[j].r.run.taken

\* A grid evaluation ran two different quantities whose sales and profits
\* differ, over trials that drew different amounts of the stream.
C2_Witness ==
    /\ Returned(log) = {1, 2}
    /\ log[1].Q # log[2].Q
    /\ log[1].r.n >= 2
    /\ log[1].r.run.solds # log[2].r.run.solds
    /\ log[1].r.run.profits # log[2].r.run.profits
    /\ log[1].r.run.taken[1] # log[1].r.run.taken[2]

\* C3: evaluate_grid returns one summary per element of Q_values, the i-th
\* for Q_values[i], whatever their average profits.
C3_GridOrder ==
    ret.kind = "list" =>
        /\ Len(ret.val) = Len(ret.Qs)
        /\ \A i \in DOMAIN ret.Qs : ret.val[i]["Q"] = ret.Qs[i]

\* A grid of two different quantities returned, the second with the higher
\* total (hence average) profit.
C3_Witness ==
    /\ ret.kind = "list"
    /\ Len(ret.Qs) = 2
    /\ ret.Qs[1] # ret.Qs[2]
    /\ Len(log) = 2
    /\ SeqSum(log[2].r.run.profits) > SeqSum(log[1].r.run.profits)
    /\ ret.val[2]["Q"] = ret.Qs[2]

\* C11: on a valid Scenario, a direct call whose trial count (the n given, or
\* the Scenario's replications when none is given) is not positive, or whose
\* Q is negative, raises; it created no generator, ran no trial and returned
\* no summary.
C11_DriverPreconditions ==
    \A i \in DOMAIN log :
        LET e == log[i]
            nonpositive == IF e.n_arg = None THEN sc.replications <= 0
                           ELSE e.n_arg[1] <= 0
        IN  (validate(sc) = "ok" /\ (nonpositive \/ e.Q < 0))
            => /\ e.r.err \in {"n/replications must be > 0", "Q must be >= 0"}
               /\ nonpositive => e.r.err = "n/replications must be > 0"
               /\ ~e.r.seeded
               /\ e.r.rng = None
               /\ DOMAIN e.r = {"err", "rng", "seeded"}
               /\ i = Len(log) => ret = [kind |-> "error", err |-> e.r.err]

\* A valid Scenario, and the latest direct call asked for zero trials of a
\* non-negative Q and was refused.
C11_Witness ==
    /\ validate(sc) = "ok"
    /\ log # <<>>
    /\ log[Len(log)].n_arg = Some(0)
    /\ log[Len(log)].Q >= 0
    /\ ret = [kind |-> "error", err |-> "n/replications must be > 0"]

\* The keys a summary is said to carry besides n_games, and those that echo
\* the Scenario.
SummaryKeys ==
    {"Q", "seed", "avg_profit", "sd_profit", "min_profit", "max_profit",
     "avg_attendance", "avg_demand", "avg_sold", "avg_leftover", "stockout_rate",
     "price", "cost", "salvage", "fixed_cost_per_game"}

EchoedKeys == {"price", "cost", "salvage", "fixed_cost_per_game"}

\* C12: every summary simulate_many returns carries the keys Q, n_games, seed,
\* the eight aggregates, stockout_rate and the echoed price, cost, salvage and
\* fixed_cost_per_game, the echoes equal to the Scenario's values.
C12_SummaryFields ==
    \A i \in Returned(log) :
        /\ SummaryKeys \cup {"n_games"} \subseteq DOMAIN log[i].r.out
        /\ \A k \in EchoedKeys : log[i].r.out[k] = sc[k]

\* The traces of a summary are those of n trials of Q on Scenario s: four
\* lists of length n, entry k of each from the same trial.
TracesOfTrials(t, Q, n, s) ==
    /\ DOMAIN t = {"profit", "demand", "attendance", "eps"}
    /\ \A f \in DOMAIN t : Len(t[f]) = n
    /\ \A k \in 1..n :
          /\ t.demand[k] =
                Round10(Max2(0, (((t.attendance[k] * R_BASE) \div 100) * t.eps[k]) \div 1000))
          /\ t.profit[k] = s.price * Min2(Q, t.demand[k]) - s.cost * Q
                           + s.salvage * Max2(Q - t.demand[k], 0)
                           - s.fixed_cost_per_game

\* C13: a summary carries traces exactly when they were requested; its four
\* lists then have length n and entry k of each belongs to trial k, profit[k]
\* being the profit of Q against demand[k].  The summaries evaluate_grid
\* returns carry no traces.
C13_Traces ==
    /\ \A i \in Returned(log) :
          /\ "traces" \in DOMAIN log[i].r.out <=> log[i].traces
          /\ log[i].traces =>
                TracesOfTrials(log[i].r.out["traces"], log[i].Q, log[i].r.n, sc)
    /\ ret.kind = "list" =>
          \A i \in DOMAIN ret.val : "traces" \notin DOMAIN ret.val[i]

\* A direct call returned the traces of two trials, the first with demand
\* below Q and the second above.
C13_Witness ==
    /\ ret.kind = "summary"
    /\ log # <<>>
    /\ log[Len(log)].traces
    /\ "traces" \in DOMAIN ret.val
    /\ Len(ret.val["traces"].demand) = 2
    /\ ret.val["traces"].demand[1] < ret.val["Q"]
    /\ ret.val["traces"].demand[2] > ret.val["Q"]
    /\ ret.val["traces"].profit[1] # ret.val["traces"].profit[2]

\* C14: a call that returns ran exactly the Scenario's replications when no n
\* was given and exactly n trials otherwise, on a generator seeded with the
\* Scenario's seed when no seed was given and with the given seed otherwise
\* (0 included); the summary reports the trial count and seed used.
C14_DefaultsAndOverrides ==
    \A i \in Returned(log) :
        LET e == log[i]
            trials == IF e.n_arg = None THEN sc.replications ELSE e.n_arg[1]
            seed == IF e.seed_arg = None THEN sc.seed ELSE e.seed_arg[1]
        IN  /\ Len(e.r.run.profits) = trials
            /\ Len(e.r.run.taken) = trials
            /\ e.r.start = Seed(seed)
            /\ e.r.out["n games"] = trials
            /\ e.r.out["seed"] = seed

\* A call without n and with the seed override 0 returned: it ran the
\* Scenario's replications on a generator that differs from the one the
\* Scenario's own seed gives.
C14_Witness ==
    /\ ret.kind = "summary"
    /\ log # <<>>
    /\ log[Len(log)].n_arg = None
    /\ log[Len(log)].seed_arg = Some(0)
    /\ Len(log[Len(log)].r.run.profits) = sc.replications
    /\ ret.val["seed"] = 0
    /\ log[Len(log)].r.start # Seed(sc.seed)

\* C15 as stated: evaluate_grid returns no list when the Scenario is invalid
\* or some element of Q_values is negative.
C15_NoListOnFailure ==
    ret.kind = "list" =>
        /\ validate(sc) = "ok"
        /\ \A i \in DOMAIN ret.Qs : ret.Qs[i] >= 0

\* C15, for a Q_values that is not empty: evaluate_grid returns a list only
\* when the Scenario is valid and no element is negative; the first
\* invocation of simulate_many that raises is the last one made, its error is
\* what the caller gets, and the summaries collected before it are gone.
C15_NoPartialResults ==
    /\ (ret.kind = "list" /\ ret.Qs # <<>>) =>
          /\ validate(sc) = "ok"
          /\ \A i \in DOMAIN ret.Qs : ret.Qs[i] >= 0
    /\ \A i \in DOMAIN log :
          log[i].r.err # "ok" =>
             /\ i = Len(log)
             /\ pc = "idle"
             /\ grid = NoGrid
             /\ ret.kind = "error"
             /\ ret.err = log[i].r.err
             /\ "val" \notin DOMAIN ret
             /\ log[i].Q = ret.Qs[i]

\* A grid whose second element is negative: the first element's summary was
\* computed, the second invocation raised, and the caller got the error.
C15_Witness ==
    /\ validate(sc) = "ok"
    /\ Len(log) = 2
    /\ log[1].r.err = "ok"
    /\ log[2].r.err = "Q must be >= 0"
    /\ ret.kind = "error"
    /\ ret.Qs[1] >= 0
    /\ ret.Qs[2] < 0

C17_IndoorIdealTemp ==
    (ret.kind \in {"attendance", "demand"} /\ ret.res.err = "ok")
    => (sc.indoor => sc.temp_f = TEMP_IDEAL_F)

(***************************************************************************)
(* Claims about the multipliers and the win percentages                    *)
(***************************************************************************)
\* m multiplied by each factor of fs in turn.
RECURSIVE TimesAll(_, _)
TimesAll(m, fs) ==
    IF fs = <<>> THEN m ELSE TimesAll(Times(m, Head(fs)), Tail(fs))

\* The factors every Scenario contributes, and those only an outdoor one does.
BoostFactors(s) ==
    << IF s.promo THEN PROMO_BOOST ELSE 1000,
       IF s.playoff THEN PLAYOFF_BOOST ELSE 1000 >>

OutdoorFactors(s) ==
    << IF s.rain THEN RAIN_PENALTY ELSE 1000,
       IF s.snow THEN SNOW_PENALTY ELSE 1000,
       Max2(700, 1000 - (TEMP_PENALTY_PER_10F * Abs(s.temp_f - TEMP_IDEAL_F)) \div 10),
       _win_pct_multiplier(team_win_pct(s), TEAM_WIN_BOOST_AT_1, 800),
       _win_pct_multiplier(opp_win_pct(s), OPPONENT_WIN_BOOST_AT_1, 900) >>

\* C18: attendance_multiplier is the product of the promo and playoff boosts
\* and, for a Scenario that is not indoor only, the rain and snow penalties,
\* the temperature factor with floor 0.70 and the team and opponent win-pct
\* multipliers with floors 0.80 and 0.90; indoors it is the promo/playoff
\* product alone, whatever the temperature, the weather and the records.
C18_MultiplierComposition ==
    ret.kind = "attendance_multiplier" =>
        /\ ret.val = TimesAll(1000, IF sc.indoor THEN BoostFactors(sc)
                                    ELSE BoostFactors(sc) \o OutdoorFactors(sc))
        /\ sc.indoor =>
              ret.val = IF sc.promo /\ sc.playoff
                        THEN (PROMO_BOOST * PLAYOFF_BOOST) \div 1000
                        ELSE IF sc.promo THEN PROMO_BOOST
                        ELSE IF sc.playoff THEN PLAYOFF_BOOST
                        ELSE 1000

\* The multiplier of an indoor promotion in the rain at the lowest temperature
\* with a losing home team is the promo boost.
C18_Witness ==
    /\ ret.kind = "attendance_multiplier"
    /\ sc.indoor /\ sc.promo /\ ~sc.playoff /\ sc.rain
    /\ sc.temp_f = TEMP_MIN_F
    /\ sc.team_wins = 0 /\ sc.team_losses = SEASON_GAMES
    /\ ret.val = PROMO_BOOST

IsWinPct(val, wins, losses) ==
    /\ wins + losses > 0 =>
          /\ val * (wins + losses) <= wins * 1000
          /\ wins * 1000 < (val + 1) * (wins + losses)
    /\ wins + losses = 0 => val = 500

\* C20: team_win_pct and opp_win_pct are wins / (wins + losses) when games
\* were played and 0.5 when none was; on a Scenario that passes validation
\* they lie in [0, 1].
C20_WinPct ==
    /\ ret.kind = "team_win_pct" =>
          /\ IsWinPct(ret.val, sc.team_wins, sc.team_losses)
          /\ validate(sc) = "ok" => (0 <= ret.val /\ ret.val <= 1000)
    /\ ret.kind = "opp_win_pct" =>
          /\ IsWinPct(ret.val, sc.opp_wins, sc.opp_losses)
          /\ validate(sc) = "ok" => (0 <= ret.val /\ ret.val <= 1000)

\* The win percentage of a home team that lost every game of the season, on
\* a valid Scenario whose opponent has played none.
C20_Witness ==
    /\ ret.kind = "team_win_pct"
    /\ validate(sc) = "ok"
    /\ sc.team_wins = 0 /\ sc.team_losses = SEASON_GAMES
    /\ sc.opp_wins + sc.opp_losses = 0
    /\ ret.val = 0

FracLe(a, b) == a.num * b.den <= b.num * a.den

\* C23: over the runs of one grid evaluation (same Scenario, seed and number
\* of trials), a larger Q has a stockout rate no higher and an average
\* leftover no lower; a run whose Q is at least every demand it realized has
\* stockout rate 0 and average leftover Q - average demand.
C23_MonotoneInQ ==
    /\ \A i \in Returned(log), j \in Returned(log) :
          log[i].Q <= log[j].Q =>
              /\ FracLe(log[j].r.out.stockout_rate, log[i].r.out.stockout_rate)
              /\ FracLe(log[i].r.out.avg_leftover, log[j].r.out.avg_leftover)
    /\ \A i \in Returned(log) :
          log[i].Q >= SeqMax(log[i].r.run.demands) =>
              LET o == log[i].r.out
              IN  /\ o.stockout_rate = Frac(0, 1)
                  /\ o.avg_leftover =
                        Frac(log[i].Q * o.avg_demand.den - o.avg_demand.num,
                             o.avg_demand.den)

\* One grid evaluation ran a quantity below every realized demand and then a
\* larger one that covers them all: the stockout rate fell from 1 to 0 and the
\* average leftover rose from 0.
C23_Witness ==
    /\ Returned(log) = {1, 2}
    /\ log[1].Q < log[2].Q
    /\ log[2].Q > SeqMax(log[2].r.run.demands)
    /\ log[1].r.out.stockout_rate = Frac(1, 1)
    /\ log[2].r.out.stockout_rate = Frac(0, 1)
    /\ log[1].r.out.avg_leftover = Frac(0, 1)
    /\ log[2].r.out.avg_leftover.num > 0

\* The invocation e of the history, made on its own: nothing ran before it.
Alone(e, s) == simulate_many(e.Q, s, e.n_arg, e.seed_arg, e.traces, None)

\* C24: the runs share no mutable state.  Every invocation of simulate_many,
\* direct or made by evaluate_grid, leaves the Scenario and the generator the
\* caller holds as they were; it starts from a generator of its own, seeded
\* with its seed, and from empty accumulators (one entry per trial at the
\* end); and what it returns or raises is what the same invocation gives when
\* nothing else runs, whatever ran before or between.
C24_NoSharedState ==
    /\ [][log' # log => (sc' = sc /\ rng' = rng)]_vars
    /\ [](\A i \in DOMAIN log :
            LET e == log[i]
                alone == Alone(e, sc)
            IN  /\ e.r.err = alone.err
                /\ e.r.err = "ok" =>
                      /\ e.r.out = alone.out
                      /\ e.r.start = Seed(e.r.seed)
                      /\ Len(e.r.run.profits) = e.r.n
                      /\ Len(e.r.run.demands) = e.r.n
                      /\ Len(e.r.run.solds) = e.r.n
                      /\ Len(e.r.run.leftovers) = e.r.n
                      /\ Len(e.r.run.attendances) = e.r.n)

\* The caller had drawn from its own generator, and a grid evaluation then
\* ran two different quantities for two trials each, the second after the
\* first had consumed part of its stream.
C24_Witness ==
    /\ rng.draws > 0
    /\ Returned(log) = {1, 2}
    /\ log[1].Q # log[2].Q
    /\ log[1].r.n = 2
    /\ log[1].r.rng # None /\ log[1].r.rng[1].draws > 0
    /\ log[2].r.out = Alone(log[2], sc).out

\* C25: the summary the caller picks as best after a grid evaluation has an
\* avg_profit at least that of every returned summary, and of the summaries
\* that share the maximum it is the earliest in input order.
C25_BestSelection ==
    (ret.kind = "best" /\ ret.err = "ok") =>
        /\ ret.index \in DOMAIN ret.results
        /\ ret.val = ret.results[ret.index]
        /\ \A j \in DOMAIN ret.results :
              /\ ~FracLess(ret.val["avg_profit"], ret.results[j]["avg_profit"])
              /\ ret.results[j]["avg_profit"] = ret.val["avg_profit"]
                    => ret.index <= j

\* Two summaries tied for the maximum, above a third one listed first, and the
\* earlier of the two was picked.
C25_Witness ==
    /\ ret.kind = "best" /\ ret.err = "ok"
    /\ Len(ret.results) = 3
    /\ FracLess(ret.results[1]["avg_profit"], ret.results[2]["avg_profit"])
    /\ ret.results[2]["avg_profit"] = ret.results[3]["avg_profit"]
    /\ ret.index = 2

(***************************************************************************)
(* Claims about one game's result                                          *)
(***************************************************************************)
\* C27: every GameResult of profit_for_game for Q >= 0 and D >= 0 has
\* sold + leftover = Q, 0 <= sold <= D and 0 <= leftover <= Q; when D > Q
\* everything is sold and nothing is left, and when something is left D < Q.
C27_Conservation ==
    (ret.kind = "profit" /\ ret.Q >= 0 /\ ret.D >= 0) =>
        LET r == ret.res
        IN  /\ r.kind = "GameResult"
            /\ r.sold + r.leftover = ret.Q
            /\ 0 <= r.sold /\ r.sold <= ret.D
            /\ 0 <= r.leftover /\ r.leftover <= ret.Q
            /\ ret.D > ret.Q => (r.sold = ret.Q /\ r.leftover = 0)
            /\ r.leftover > 0 => ret.D < ret.Q
            /\ ~(IsStockout(r.D, ret.Q) /\ r.leftover > 0)

\* A stockout: a positive order below the demand was sold out.
C27_Witness ==
    /\ ret.kind = "profit" /\ ret.Q > 0 /\ ret.D > ret.Q
    /\ ret.res.kind = "GameResult"
    /\ ret.res.sold = ret.Q /\ ret.res.leftover = 0

\* The profit of ordering exactly the demand: (price - cost) * D - fixed cost.
ProfitAtDemand(s, D) == (s.price - s.cost) * D - s.fixed_cost_per_game

\* C28: for a Scenario that passes validation and every D >= 0, the profit of
\* any Q >= 0 is at most that of ordering Q = D, (price - cost) * D - fixed
\* cost, which ordering Q = D attains; hence the max_profit of a summary is at
\* most (price - cost) * (largest realized demand) - fixed cost.
C28_NewsvendorOptimum ==
    /\ (ret.kind = "profit" /\ validate(sc) = "ok" /\ ret.Q >= 0 /\ ret.D >= 0) =>
          /\ ret.res.kind = "GameResult"
          /\ ret.res.profit <= ProfitAtDemand(sc, ret.D)
          /\ ret.Q = ret.D => ret.res.profit = ProfitAtDemand(sc, ret.D)
    /\ \A i \in Returned(log) :
          LET run == log[i].r.run
          IN  /\ validate(sc) = "ok"
              /\ \A t \in DOMAIN run.profits :
                    run.profits[t] <= ProfitAtDemand(sc, run.demands[t])
              /\ log[i].r.out.max_profit
                    <= ProfitAtDemand(sc, SeqMax(run.demands))

\* With salvage equal to cost an order above the demand earned exactly the
\* profit of ordering the demand, after a run of two trials had returned a
\* summary whose every trial ordered more than was demanded.
C28_Witness ==
    /\ ret.kind = "profit" /\ validate(sc) = "ok"
    /\ sc.salvage = sc.cost
    /\ ret.Q > ret.D /\ ret.D > 0
    /\ ret.res.profit = ProfitAtDemand(sc, ret.D)
    /\ log # <<>>
    /\ Returned(log) = DOMAIN log
    /\ log[Len(log)].r.n = 2
    /\ log[Len(log)].Q > SeqMax(log[Len(log)].r.run.demands)

FracSumIs(a, b, q) == a.num * b.den + b.num * a.den = q * (a.den * b.den)

\* C30: every summary simulate_many returns has min_profit <= avg_profit <=
\* max_profit, sd_profit >= 0 (0 after a single trial), 0 <= stockout_rate
\* <= 1, avg_sold + avg_leftover = Q, avg_sold <= avg_demand, avg_sold <= Q
\* and 0 <= avg_attendance <= stadium_capacity.
C30_AggregateConsistency ==
    \A i \in Returned(log) :
        LET o == log[i].r.out
            Q == log[i].Q
        IN  /\ o.min_profit * o.avg_profit.den <= o.avg_profit.num
            /\ o.avg_profit.num <= o.max_profit * o.avg_profit.den
            /\ o.sd_profit >= 0
            /\ o["n games"] = 1 => o.sd_profit = 0
            /\ 0 <= o.stockout_rate.num
            /\ o.stockout_rate.num <= o.stockout_rate.den
            /\ FracSumIs(o.avg_sold, o.avg_leftover, Q)
            /\ FracLe(o.avg_sold, o.avg_demand)
            /\ o.avg_sold.num <= Q * o.avg_sold.den
            /\ 0 <= o.avg_attendance.num
            /\ o.avg_attendance.num <= sc.stadium_capacity * o.avg_attendance.den

\* A run of a hundred trials returned a summary with some stockouts and some
\* leftovers, whose profits are spread strictly around their average.
C30_Witness ==
    /\ log # <<>>
    /\ Returned(log) = DOMAIN log
    /\ LET o == log[Len(log)].r.out
       IN  /\ o["n games"] = REPS_MIN
           /\ o.min_profit * o.avg_profit.den < o.avg_profit.num
           /\ o.avg_profit.num < o.max_profit * o.avg_profit.den
           /\ o.sd_profit > 0
           /\ 0 < o.stockout_rate.num
           /\ o.stockout_rate.num < o.stockout_rate.den
           /\ o.avg_leftover.num > 0
           /\ ~FracLe(o.avg_demand, o.avg_sold)



=============================================================================
